---- MODULE Spec2Model ----
(***************************************************************************)
(* TypeNarrowingAgent: acquisition of source files (clone, walk, single    *)
(* file), the retrying request to the text-generation boundary, recovery   *)
(* of the JSON report from the returned text, and aggregation.             *)
(*                                                                         *)
(* src/agent/utils.py is the packaged pipeline ("utils"); src/agent.py is  *)
(* the stand-alone script ("legacy"), which walks a cloned repository only *)
(* and decodes the returned text without extraction.                       *)
(***************************************************************************)
EXTENDS Integers, Sequences, FiniteSets, TLC

VARIABLES
    variant,            \* "utils" (src/agent/utils.py) or "legacy" (src/agent.py)
    mode,               \* "repo_walk", "repo_single" or "local" (cli.py dispatch)
    pc,                 \* position of the single thread of the run
    temp_dir,           \* "none", "exists" or "removed"
    walked,             \* directory entries os.walk has handed out so far
    probe,              \* the file the acquirer is looking at, with its verdict
    code_files,         \* accepted paths, in insertion (= iteration) order
    idx,                \* position of the per-file loop in code_files
    attempt,            \* loop variable of analyze_code_with_groq
    log,                \* events of the current analyze_code_with_groq call
    slept,              \* time units slept in the current analyze_code_with_groq call
    raw_content,        \* text returned by the last boundary call
    json_content,       \* span extracted from raw_content
    invoked,            \* helpers called on the last returned text, in order
    analysis,           \* value returned by analyze_code_with_groq
    all_vulnerabilities,\* the aggregate under construction
    results,            \* history: per processed file, its path and analysis
    raised,             \* the exception that ended the run, if any
    total_calls         \* boundary calls issued during the run

vars == << variant, mode, pc, temp_dir, walked, probe, code_files, idx, attempt,
           log, slept, raw_content, json_content, invoked, analysis,
           all_vulnerabilities, results, raised, total_calls >>

(***************************************************************************)
(* Bounds of the model and constants of the program.                       *)
(***************************************************************************)
MaxWalk == 2
MaxTextLen == 3

max_file_size == 1000000
max_retries == 3
retry_delay == 5

RECURSIVE SeqsUpTo(_, _)
SeqsUpTo(S, n) ==
    IF n = 0 THEN { <<>> }
    ELSE LET shorter == SeqsUpTo(S, n - 1)
         IN  shorter \cup { Append(s, x) : s \in { t \in shorter : Len(t) = n - 1 }, x \in S }

Min(S) == CHOOSE x \in S : \A y \in S : x <= y
Max(S) == CHOOSE x \in S : \A y \in S : x >= y

(***************************************************************************)
(* Files.  A name is a sequence of characters; a content is the sequence   *)
(* of its bytes by class: "sp" whitespace, "a" any other ASCII byte, "bad" *)
(* a byte that is no valid UTF-8.  size is what os.path.getsize reports:   *)
(* the number of bytes of the content, or, for a content that stands       *)
(* abridged, a size at or just past the limit.  exists: the path can be    *)
(* stat'ed; readable: it can be opened.                                    *)
(***************************************************************************)
FileNames ==
    { <<"a", ".", "p", "y">>, <<"b", ".", "t", "s">>, <<"c", ".", "j", "s">>,
      <<"p", "y">>, <<".", "t", "s">>, <<"a", ".", "p", "y", "c">> }

Contents ==
    { <<>>, <<"sp">>, <<"sp", "sp">>, <<"a">>, <<"sp", "a", "sp">>,
      <<"bad">>, <<"a", "bad">>, <<"sp", "bad">> }

FileSizes(content) ==
    IF content = <<>> THEN { 0 }
    ELSE { Len(content), max_file_size, max_file_size + 1 }

Files ==
    { f \in [ name : FileNames, exists : BOOLEAN, readable : BOOLEAN,
              size : UNION { FileSizes(c) : c \in Contents }, content : Contents ] :
        /\ f.size \in FileSizes(f.content)
        /\ ~f.exists => (~f.readable /\ f.content = <<>>) }

NoFile ==
    [ name |-> <<>>, exists |-> FALSE, readable |-> FALSE, size |-> 0, content |-> <<>> ]

\* str.endswith(suffix)
EndsWith(name, suffix) ==
    /\ Len(name) >= Len(suffix)
    /\ SubSeq(name, Len(name) - Len(suffix) + 1, Len(name)) = suffix

\* file.endswith((".py", ".ts"))
HasCodeExtension(name) ==
    \/ EndsWith(name, <<".", "p", "y">>)
    \/ EndsWith(name, <<".", "t", "s">>)

\* f.read() with encoding="utf-8" raises UnicodeDecodeError on an invalid byte
Decodes(content) == \A i \in 1..Len(content) : content[i] # "bad"

\* str.strip(): leading and trailing whitespace removed
Strip(s) ==
    LET keep == { i \in 1..Len(s) : s[i] # "sp" }
    IN  IF keep = {} THEN <<>> ELSE SubSeq(s, Min(keep), Max(keep))

(***************************************************************************)
(* The eligibility filter, in the order the code applies its checks.       *)
(* A verdict is "accept", "ignored" (not a candidate of the walk),         *)
(* "skip:<kind>" (logged and skipped) or the kind of the exception raised. *)
(***************************************************************************)
\* a size guard that also turns away a file of exactly max_file_size bytes
ExceedsSizeLimit_Inclusive(size) == size >= max_file_size

\* the size guard: os.path.getsize(file_path) > max_file_size
ExceedsSizeLimit(size) == size > max_file_size

\* read_code_files, walk branch: one iteration of the inner loop
WalkVerdict(f) ==
    IF ~HasCodeExtension(f.name) THEN "ignored"
    ELSE IF ~f.exists THEN "OSError"                  \* os.path.getsize raises
    ELSE IF ExceedsSizeLimit(f.size) THEN "skip:TooLarge"
    ELSE IF ~f.readable THEN "OSError"                \* open raises
    ELSE IF ~Decodes(f.content) THEN "skip:DecodeFailure"
    ELSE IF Strip(f.content) # <<>> THEN "accept"
    ELSE "skip:Empty"

\* agent.py read_code_files: the same walk, without a specific_file branch
LegacyWalkVerdict(f) ==
    IF ~HasCodeExtension(f.name) THEN "ignored"
    ELSE IF ~f.exists THEN "OSError"
    ELSE IF ExceedsSizeLimit(f.size) THEN "skip:TooLarge"
    ELSE IF ~f.readable THEN "OSError"
    ELSE IF ~Decodes(f.content) THEN "skip:DecodeFailure"
    ELSE IF Strip(f.content) # <<>> THEN "accept"
    ELSE "skip:Empty"

\* read_code_files, specific_file branch
SpecificVerdict(f) ==
    IF ~f.exists THEN "NotFound"
    ELSE IF ~HasCodeExtension(f.name) THEN "WrongExtension"
    ELSE IF ExceedsSizeLimit(f.size) THEN "TooLarge"
    ELSE IF ~f.readable THEN "OSError"
    ELSE IF ~Decodes(f.content) THEN "DecodeFailure"
    ELSE IF Strip(f.content) = <<>> THEN "Empty"
    ELSE "accept"

\* read_local_file
LocalVerdict(f) ==
    IF ~f.exists THEN "NotFound"
    ELSE IF ~HasCodeExtension(f.name) THEN "WrongExtension"
    ELSE IF ExceedsSizeLimit(f.size) THEN "TooLarge"
    ELSE IF ~f.readable THEN "OSError"
    ELSE IF ~Decodes(f.content) THEN "DecodeFailure"
    ELSE IF Strip(f.content) = <<>> THEN "Empty"
    ELSE "accept"

\* a single-file acquirer that raises for a missing file only
SingleAborts_NotFoundOnly(v) == v = "NotFound"

\* the verdicts on which the acquirer raises instead of going on
WalkAborts(v) == v = "OSError"
SingleAborts(v) == v # "accept"

(***************************************************************************)
(* Text returned by the boundary: a sequence of tokens.  "sp" is a         *)
(* whitespace character, "x" a character of prose, "n" a digit; "V0", "V2" *)
(* and "VN" are the members "vulnerabilities": [], "vulnerabilities":      *)
(* [f1, f2] and "vulnerabilities": 5; "E" is the member "error": "e";      *)
(* "VD" is the member "vulnerabilities": [[[...]]] nested deeper than the  *)
(* interpreter's recursion limit; it occurs in the sample texts only.      *)
(***************************************************************************)
Tokens == { "sp", "x", "n", "{", "}", ",", "V0", "V2", "VN", "E" }
Members == { "V0", "V2", "VN", "VD", "E" }

AllTexts == SeqsUpTo(Tokens, MaxTextLen)

SampleTexts ==
    { <<>>, <<"sp">>,
      <<"x", "sp", "x">>, <<"}", "x", "{">>,
      <<"x", "{", "V0", "}", "x">>,
      <<"{", "V2", "}">>,
      <<"{", "x", "}">>,
      <<"{", "}">>,
      <<"{", "VN", "}">>,
      <<"{", "V2", ",", "E", "}">>,
      <<"{", "E", "}">>,
      <<"{", "VD", "}">>,
      <<"{", "VD", "x", "}">>,
      <<"n">> }

\* a blank check without strip(): only the empty text counts as blank
IsBlank_NoStrip(text) == text = <<>>

\* not raw_content.strip()
IsBlank(text) == Strip(text) = <<>>

\* the lazy pattern \{.*?\}: the span ends at the nearest "}"
MatchEnd_Lazy(text, i) ==
    IF text[i] # "{" THEN 0
    ELSE LET closes == { j \in (i + 1)..Len(text) : text[j] = "}" }
         IN  IF closes = {} THEN 0 ELSE Min(closes)

\* re.search(r'(\{.*\})', text, re.DOTALL) tried at start position i: "{" must
\* stand there, ".*" runs to the end of the text and backs off to the nearest "}"
MatchEnd(text, i) ==
    IF text[i] # "{" THEN 0
    ELSE LET closes == { j \in (i + 1)..Len(text) : text[j] = "}" }
         IN  IF closes = {} THEN 0 ELSE Max(closes)

\* re.search scans the start positions left to right and keeps the first match
extract_json_from_response(text) ==
    LET starts == { i \in 1..Len(text) : MatchEnd(text, i) > 0 }
    IN  IF starts = {} THEN <<>>
        ELSE SubSeq(text, Min(starts), MatchEnd(text, Min(starts)))

(***************************************************************************)
(* Values.  A decoded value is a dict (with or without the keys            *)
(* "vulnerabilities" and "error") or, in the legacy script, a bare number. *)
(***************************************************************************)
NoError == [ kind |-> "none", names |-> 0 ]
Error(kind, path) == [ kind |-> kind, names |-> path ]

Dict(hasV, vKind, vItems, hasE, error) ==
    [ kind |-> "dict", hasV |-> hasV, vKind |-> vKind, vItems |-> vItems,
      hasE |-> hasE, error |-> error ]

Number == [ kind |-> "int", hasV |-> FALSE, vKind |-> "none", vItems |-> <<>>,
            hasE |-> FALSE, error |-> NoError ]

NoAnalysis == [ kind |-> "unset", hasV |-> FALSE, vKind |-> "none", vItems |-> <<>>,
                hasE |-> FALSE, error |-> NoError ]

\* {"vulnerabilities": [], "error": ...}
ErrorResult(kind, path) == Dict(TRUE, "list", <<>>, TRUE, Error(kind, path))

Unspace(text) == SelectSeq(text, LAMBDA t : t # "sp")

\* the members of an object body: member ("," member)*, or nothing
IsMemberList(body) ==
    \/ body = <<>>
    \/ /\ Len(body) % 2 = 1
       /\ \A i \in 1..Len(body) :
            IF i % 2 = 1 THEN body[i] \in Members ELSE body[i] = ","

\* json.loads accepts the text
JsonValid(text) ==
    LET u == Unspace(text)
    IN  \/ u = <<"n">>
        \/ /\ Len(u) >= 2
           /\ u[1] = "{"
           /\ u[Len(u)] = "}"
           /\ IsMemberList(SubSeq(u, 2, Len(u) - 1))

\* the scanner reads left to right: token i stands where the grammar allows it
Placed(u, i) ==
    IF i = 1 THEN u[i] = "{"
    ELSE IF i = 2 THEN u[i] \in Members \cup { "}" }
    ELSE IF i % 2 = 1 THEN u[i] \in { ",", "}" }
    ELSE u[i] \in Members

\* json.loads raises RecursionError, which is no JSONDecodeError: the scanner
\* reaches a value nested past the recursion limit before any syntax error
\* and before the end of the object
JsonOverflows(text) ==
    LET u == Unspace(text)
    IN  \E d \in 1..Len(u) :
            /\ u[d] = "VD"
            /\ \A i \in 1..d : Placed(u, i)
            /\ \A i \in 1..(d - 1) : u[i] # "}"

\* json.loads(text) for an accepted text; a repeated key keeps its last value
JsonValue(text) ==
    LET u  == Unspace(text)
        vs == { i \in 1..Len(u) : u[i] \in { "V0", "V2", "VN" } }
        es == { i \in 1..Len(u) : u[i] = "E" }
        v  == IF vs = {} THEN "none" ELSE u[Max(vs)]
    IN  IF u = <<"n">> THEN Number
        ELSE Dict(vs # {},
                  IF v = "none" THEN "none" ELSE IF v = "VN" THEN "int" ELSE "list",
                  IF v = "V2" THEN <<"f1", "f2">> ELSE <<>>,
                  es # {},
                  IF es # {} THEN Error("FromBoundary", 0) ELSE NoError)

(***************************************************************************)
(* analyze_code_with_groq: what one attempt makes of the returned text.    *)
(***************************************************************************)
\* utils.py: blank check, extraction, decoding
UtilsResult(text, path) ==
    IF IsBlank(text) THEN ErrorResult("EmptyResponse", path)
    ELSE LET span == extract_json_from_response(text)
         IN  IF span = <<>> THEN ErrorResult("NoJsonFound", path)
             ELSE IF JsonValid(span) THEN JsonValue(span)
             ELSE ErrorResult("InvalidJson", 0)

\* agent.py: json.loads on the whole text
LegacyResult(text, path) ==
    IF JsonValid(text) THEN JsonValue(text) ELSE ErrorResult("InvalidJson", 0)

\* the attempt raises on a returned text: json.loads overflows
ResponseRaises(text) ==
    IF variant = "utils"
    THEN ~IsBlank(text) /\ JsonOverflows(extract_json_from_response(text))
    ELSE JsonOverflows(text)

\* the helpers an attempt calls on a returned text, in order
HelpersInvoked(text) ==
    IF variant = "utils"
    THEN IF IsBlank(text) THEN <<>>
         ELSE IF extract_json_from_response(text) = <<>>
              THEN <<"extract_json_from_response">>
              ELSE <<"extract_json_from_response", "json.loads">>
    ELSE <<"json.loads">>

\* the span utils.py leaves in json_content (assigned only past the blank check)
SpanOf(text, old) ==
    IF variant = "utils" /\ ~IsBlank(text) THEN extract_json_from_response(text) ELSE old

\* exceptions the boundary call raises, and the ones a None content leads to
BoundaryExceptions == { "APIConnectionError", "APIStatusError" }
ExceptionSubclasses ==
    BoundaryExceptions
    \cup { "AttributeError", "TypeError", "JSONDecodeError", "RecursionError" }

\* a handler that catches the boundary's own exceptions only
OuterHandlerCatches_BoundaryOnly(exc) == exc \in BoundaryExceptions

\* except Exception as e
OuterHandlerCatches(exc) == exc \in ExceptionSubclasses

\* an off-by-one retry guard: a delay follows the last attempt too
RetriesLeft_OffByOne(a) == a < max_retries

\* if attempt < max_retries - 1
RetriesLeft(a) == a < max_retries - 1

(***************************************************************************)
(* The aggregate: findings and {file, error} entries in one list.          *)
(***************************************************************************)
Finding(id) == [ tag |-> "finding", id |-> id, file |-> 0, error |-> NoError ]
ErrorEntry(path, e) == [ tag |-> "error", id |-> "", file |-> path, error |-> e ]

RECURSIVE Findings(_)
Findings(items) ==
    IF items = <<>> THEN <<>> ELSE <<Finding(Head(items))>> \o Findings(Tail(items))

\* "vulnerabilities" in analysis on a number, or list.extend on a number: TypeError
AggregateRaises(an) == an.kind = "int" \/ (an.hasV /\ an.vKind = "int")

\* an extend that drops findings the aggregate already holds
Extended_Deduplicated(all, items) ==
    all \o SelectSeq(Findings(items),
                     LAMBDA e : \A k \in 1..Len(all) : all[k] # e)

\* all_vulnerabilities.extend(...)
Extended(all, items) == all \o Findings(items)

\* the two ifs of the per-file loop body
Aggregated(all, an, path) ==
    LET withFindings == IF an.hasV THEN Extended(all, an.vItems) ELSE all
    IN  IF an.hasE THEN Append(withFindings, ErrorEntry(path, an.error)) ELSE withFindings

(***************************************************************************)
(* The run.                                                                *)
(***************************************************************************)
NoProbe == [ file |-> NoFile, verdict |-> "none", by |-> "none" ]
NoRaise == [ stage |-> "none", kind |-> "none" ]

\* a clone directory removed at the end of a successful run only
LeaveTempDir_OnReturnOnly(dir, how) ==
    IF dir = "exists" /\ how = "return" THEN "removed" ELSE dir

\* with tempfile.TemporaryDirectory() as temp_dir: the directory is removed
\* when the block is left, by return or by exception
LeaveTempDir(dir, how) == IF dir = "exists" THEN "removed" ELSE dir

Raise(stage, kind) ==
    /\ pc' = "raised"
    /\ raised' = [ stage |-> stage, kind |-> kind ]
    /\ temp_dir' = LeaveTempDir(temp_dir, "raise")

\* cli.py main: which entry point runs; agent.py main runs its analyze_repository
Dispatch ==
    { <<"utils", "repo_walk">>, <<"utils", "repo_single">>, <<"utils", "local">>,
      <<"legacy", "repo_walk">> }

Blank ==
    /\ temp_dir = "none"
    /\ walked = 0
    /\ probe = NoProbe
    /\ attempt = 0
    /\ log = <<>>
    /\ slept = 0
    /\ raw_content = <<>>
    /\ json_content = <<>>
    /\ invoked = <<>>
    /\ analysis = NoAnalysis
    /\ all_vulnerabilities = <<>>
    /\ results = <<>>
    /\ raised = NoRaise
    /\ total_calls = 0

Init ==
    /\ \E d \in Dispatch : variant = d[1] /\ mode = d[2]
    /\ pc = "start"
    /\ code_files = <<>>
    /\ idx = 0
    /\ Blank

EnterTempDir ==
    /\ pc = "start"
    /\ mode \in { "repo_walk", "repo_single" }
    /\ temp_dir' = "exists"
    /\ pc' = "clone"
    /\ UNCHANGED << invoked, variant, mode, walked, probe, code_files, idx,
                    attempt, log, slept, raw_content, json_content, analysis,
                    all_vulnerabilities, results, raised, total_calls >>

clone_repository ==
    /\ pc = "clone"
    /\ \E cloned \in BOOLEAN :
         IF cloned
         THEN pc' = "read" /\ UNCHANGED << raised, temp_dir >>
         ELSE Raise("acquire", "CloneFailure")
    /\ UNCHANGED << invoked, variant, mode, walked, probe, code_files, idx,
                    attempt, log, slept, raw_content, json_content, analysis,
                    all_vulnerabilities, results, total_calls >>

\* read_code_files(repo_path, specific_file) and read_local_file(file_path)
ReadSingle(by, f, v) ==
    /\ probe' = [ file |-> f, verdict |-> v, by |-> by ]
    /\ IF SingleAborts(v)
       THEN Raise("acquire", v) /\ UNCHANGED code_files
       ELSE /\ code_files' = <<1>>
            /\ pc' = "loop"
            /\ UNCHANGED << raised, temp_dir >>
    /\ UNCHANGED << invoked, variant, mode, walked, idx, attempt, log, slept,
                    raw_content, json_content, analysis, all_vulnerabilities,
                    results, total_calls >>

read_specific_file ==
    /\ pc = "read"
    /\ mode = "repo_single"
    /\ \E f \in Files : ReadSingle("specific", f, SpecificVerdict(f))

read_local_file ==
    /\ pc = "start"
    /\ mode = "local"
    /\ \E f \in Files : ReadSingle("local", f, LocalVerdict(f))

\* read_code_files(repo_path): one directory entry of os.walk
walk_visit ==
    /\ pc = "read"
    /\ mode = "repo_walk"
    /\ walked < MaxWalk
    /\ \E f \in Files :
         LET v == IF variant = "utils" THEN WalkVerdict(f) ELSE LegacyWalkVerdict(f)
         IN  /\ probe' = [ file |-> f, verdict |-> v, by |-> "walk" ]
             /\ walked' = walked + 1
             /\ IF WalkAborts(v)
                THEN Raise("acquire", v) /\ UNCHANGED code_files
                ELSE /\ code_files' = IF v = "accept"
                                      THEN Append(code_files, walked + 1)
                                      ELSE code_files
                     /\ UNCHANGED << pc, raised, temp_dir >>
    /\ UNCHANGED << invoked, variant, mode, idx, attempt, log, slept,
                    raw_content, json_content, analysis, all_vulnerabilities,
                    results, total_calls >>

\* read_code_files(repo_path): return code_files
walk_return ==
    /\ pc = "read"
    /\ mode = "repo_walk"
    /\ pc' = "loop"
    /\ probe' = NoProbe
    /\ UNCHANGED << invoked, variant, mode, temp_dir, walked, code_files, idx,
                    attempt, log, slept, raw_content, json_content, analysis,
                    all_vulnerabilities, results, raised, total_calls >>

\* for file_path, code in code_files.items(): the next file enters analyze_code_with_groq
begin_file ==
    /\ pc = "loop"
    /\ idx < Len(code_files)
    /\ idx' = idx + 1
    /\ attempt' = 0
    /\ log' = <<>>
    /\ slept' = 0
    /\ analysis' = NoAnalysis
    /\ pc' = "attempt"
    /\ UNCHANGED << invoked, variant, mode, temp_dir, walked, probe,
                    code_files, raw_content, json_content,
                    all_vulnerabilities, results, raised, total_calls >>

\* client.chat.completions.create(...) is issued
issue_call ==
    /\ pc = "attempt"
    /\ pc' = "in_flight"
    /\ total_calls' = total_calls + 1
    /\ log' = Append(log, "call")
    /\ UNCHANGED << invoked, variant, mode, temp_dir, walked, probe,
                    code_files, idx, attempt, slept, raw_content,
                    json_content, analysis, all_vulnerabilities, results,
                    raised >>

\* the except Exception clause of analyze_code_with_groq
HandleException(exc) ==
    IF ~OuterHandlerCatches(exc)
    THEN Raise("request", exc) /\ UNCHANGED analysis
    ELSE /\ IF RetriesLeft(attempt)
            THEN pc' = "sleeping" /\ UNCHANGED analysis
            ELSE /\ analysis' = ErrorResult("TransientCallFailure", code_files[idx])
                 /\ pc' = "got_analysis"
         /\ UNCHANGED << raised, temp_dir >>

call_raises ==
    /\ pc = "in_flight"
    /\ \E exc \in BoundaryExceptions : HandleException(exc)
    /\ log' = Append(log, "raise")
    /\ UNCHANGED << invoked, variant, mode, walked, probe, code_files, idx,
                    attempt, slept, raw_content, json_content,
                    all_vulnerabilities, results, total_calls >>

\* the call returns a message whose content is None: .strip() (utils.py) or
\* json.loads (agent.py) raises inside the try block
call_returns_none ==
    /\ pc = "in_flight"
    /\ HandleException(IF variant = "utils" THEN "AttributeError" ELSE "TypeError")
    /\ log' = Append(log, "none")
    /\ UNCHANGED << invoked, variant, mode, walked, probe, code_files, idx,
                    attempt, slept, raw_content, json_content,
                    all_vulnerabilities, results, total_calls >>

call_returns_text(texts) ==
    /\ pc = "in_flight"
    /\ \E text \in texts :
         /\ raw_content' = text
         /\ json_content' = SpanOf(text, json_content)
         /\ invoked' = HelpersInvoked(text)
         /\ IF ResponseRaises(text)
            THEN HandleException("RecursionError")
            ELSE /\ analysis' = IF variant = "utils"
                                THEN UtilsResult(text, code_files[idx])
                                ELSE LegacyResult(text, code_files[idx])
                 /\ pc' = "got_analysis"
                 /\ UNCHANGED << raised, temp_dir >>
    /\ log' = Append(log, "text")
    /\ UNCHANGED << variant, mode, walked, probe, code_files, idx, attempt, slept,
                    all_vulnerabilities, results, total_calls >>

\* time.sleep(retry_delay); continue
sleep ==
    /\ pc = "sleeping"
    /\ slept' = slept + retry_delay
    /\ log' = Append(log, "sleep")
    /\ attempt' = attempt + 1
    /\ IF attempt + 1 < max_retries
       THEN pc' = "attempt" /\ UNCHANGED analysis
       ELSE /\ analysis' = ErrorResult("AttemptsExhausted", code_files[idx])
            /\ pc' = "got_analysis"
    /\ UNCHANGED << invoked, variant, mode, temp_dir, walked, probe,
                    code_files, idx, raw_content, json_content,
                    all_vulnerabilities, results, raised, total_calls >>

\* a loop body that moves on to the next file and leaves the recording of
\* the result for later
aggregate_Deferred ==
    /\ pc = "got_analysis"
    /\ pc' = "loop"
    /\ UNCHANGED << invoked, variant, mode, temp_dir, walked, probe,
                    code_files, idx, attempt, log, slept, raw_content,
                    json_content, analysis, all_vulnerabilities, results,
                    raised, total_calls >>

\* the body of the per-file loop after analyze_code_with_groq has returned
aggregate ==
    /\ pc = "got_analysis"
    /\ results' = Append(results, [ file |-> code_files[idx], analysis |-> analysis ])
    /\ IF AggregateRaises(analysis)
       THEN Raise("aggregate", "TypeError") /\ UNCHANGED all_vulnerabilities
       ELSE /\ all_vulnerabilities' =
                 Aggregated(all_vulnerabilities, analysis, code_files[idx])
            /\ pc' = "loop"
            /\ UNCHANGED << raised, temp_dir >>
    /\ UNCHANGED << invoked, variant, mode, walked, probe, code_files, idx,
                    attempt, log, slept, raw_content, json_content, analysis,
                    total_calls >>

\* return {"vulnerabilities": all_vulnerabilities}
return ==
    /\ pc = "loop"
    /\ idx = Len(code_files)
    /\ pc' = "returned"
    /\ temp_dir' = LeaveTempDir(temp_dir, "return")
    /\ UNCHANGED << invoked, variant, mode, walked, probe, code_files, idx,
                    attempt, log, slept, raw_content, json_content, analysis,
                    all_vulnerabilities, results, raised, total_calls >>

Next ==
    \/ EnterTempDir
    \/ clone_repository
    \/ read_specific_file
    \/ read_local_file
    \/ walk_visit
    \/ walk_return
    \/ begin_file
    \/ issue_call
    \/ call_raises
    \/ call_returns_none
    \/ call_returns_text(SampleTexts)
    \/ sleep
    \/ aggregate
    \/ return

Spec == Init /\ [][Next]_vars

(***************************************************************************)
(* analyze_code_with_groq on its own: one call of the function for the     *)
(* first accepted file, the boundary answering with any text of at most    *)
(* MaxTextLen tokens or with one of the sample texts.                      *)
(***************************************************************************)
InitRequester ==
    /\ \/ /\ variant = "utils"
          /\ mode = "local"
          /\ temp_dir = "none"
          /\ walked = 0
          /\ probe = [ file |-> [ name |-> <<"a", ".", "p", "y">>, exists |-> TRUE,
                                  readable |-> TRUE, size |-> max_file_size,
                                  content |-> <<"a">> ],
                       verdict |-> "accept", by |-> "local" ]
       \/ /\ variant = "legacy"
          /\ mode = "repo_walk"
          /\ temp_dir = "exists"
          /\ walked = 1
          /\ probe = NoProbe
    /\ pc = "attempt"
    /\ code_files = <<1>>
    /\ idx = 1
    /\ attempt = 0
    /\ log = <<>>
    /\ slept = 0
    /\ raw_content = <<>>
    /\ json_content = <<>>
    /\ invoked = <<>>
    /\ analysis = NoAnalysis
    /\ all_vulnerabilities = <<>>
    /\ results = <<>>
    /\ raised = NoRaise
    /\ total_calls = 0

NextRequester ==
    \/ issue_call
    \/ call_raises
    \/ call_returns_none
    \/ call_returns_text(AllTexts \cup SampleTexts)
    \/ sleep

SpecRequester == InitRequester /\ [][NextRequester]_vars

(***************************************************************************)
(* Properties.                                                             *)
(***************************************************************************)
Count(s, x) == Len(SelectSeq(s, LAMBDA e : e = x))

ErrorEntriesFor(path) ==
    Len(SelectSeq(all_vulnerabilities, LAMBDA e : e.tag = "error" /\ e.file = path))

\* C1: when a run returns, every accepted file has exactly one result in the
\* aggregate: the findings of its structured report and no error entry, or one
\* error entry and no findings; never neither, never both.
C1_ExactlyOneResultPerFile ==
    pc = "returned" =>
        /\ Len(results) = Len(code_files)
        /\ \A i \in 1..Len(code_files) :
             LET an == results[i].analysis
             IN  /\ results[i].file = code_files[i]
                 /\ \/ /\ an.hasV /\ an.vKind = "list"
                       /\ ~an.hasE
                       /\ ErrorEntriesFor(code_files[i]) = 0
                    \/ /\ an.hasE
                       /\ an.vItems = <<>>
                       /\ ErrorEntriesFor(code_files[i]) = 1

\* every boundary call of the current analyze_code_with_groq call has raised
EveryAttemptRaised ==
    /\ Count(log, "raise") >= 1
    /\ Count(log, "raise") = Count(log, "call")

\* C2: when the boundary raises on every attempt, analyze_code_with_groq calls
\* it exactly 3 times, sleeps exactly 2 times for 5 time units each, after
\* attempts 1 and 2 and never after attempt 3, and returns an error result
\* instead of raising.
C2_RetryBound ==
    /\ EveryAttemptRaised =>
         /\ ~(pc = "raised" /\ raised.stage = "request")
         /\ Count(log, "call") <= 3
         /\ Count(log, "sleep") <= 2
    /\ (EveryAttemptRaised /\ pc = "got_analysis") =>
         /\ log = <<"call", "raise", "sleep", "call", "raise", "sleep", "call", "raise">>
         /\ slept = 2 * 5
         /\ analysis = ErrorResult("TransientCallFailure", code_files[idx])

C2_Witness ==
    /\ pc = "got_analysis"
    /\ EveryAttemptRaised
    /\ Count(log, "call") = 3
    /\ analysis.hasE

\* C3: the aggregator raises only when the acquisition stage fails, never
\* because of what the boundary returned for a file.
C3_RaisesOnlyForAcquisition ==
    pc = "raised" => raised.stage = "acquire"

\* what one file adds to the aggregate: its findings, then its error entry
Contribution(r) ==
    (IF r.analysis.hasV
     THEN [ k \in 1..Len(r.analysis.vItems) |-> Finding(r.analysis.vItems[k]) ]
     ELSE <<>>)
    \o (IF r.analysis.hasE THEN <<ErrorEntry(r.file, r.analysis.error)>> ELSE <<>>)

RECURSIVE Concatenation(_)
Concatenation(rs) ==
    IF rs = <<>> THEN <<>>
    ELSE Concatenation(SubSeq(rs, 1, Len(rs) - 1)) \o Contribution(rs[Len(rs)])

TwoFindingsThenError ==
    /\ Len(results) = 2
    /\ Len(results[1].analysis.vItems) = 2 /\ ~results[1].analysis.hasE
    /\ results[2].analysis.vItems = <<>> /\ results[2].analysis.hasE

\* C4: the aggregate is the concatenation, in file-processing order and without
\* deduplication, of each file's contribution; two files, one with 2 findings
\* and one with an error, give exactly 2 finding entries followed by 1 error entry.
C4_Concatenation ==
    pc \in { "loop", "returned" } =>
        /\ all_vulnerabilities = Concatenation(results)
        /\ TwoFindingsThenError =>
             /\ Len(all_vulnerabilities) = 3
             /\ all_vulnerabilities[1].tag = "finding"
             /\ all_vulnerabilities[2].tag = "finding"
             /\ all_vulnerabilities[3].tag = "error"
             /\ all_vulnerabilities[3].file = code_files[2]

C4_Witness ==
    /\ pc = "returned"
    /\ TwoFindingsThenError
    /\ Len(all_vulnerabilities) = 3

\* C5: in a run against a remote repository the temporary clone directory no
\* longer exists once the run has ended, by return or by any exception.
C5_TempDirRemoved ==
    /\ pc \in { "returned", "raised" } => temp_dir # "exists"
    /\ (pc \in { "returned", "raised" } /\ mode \in { "repo_walk", "repo_single" }) =>
         temp_dir = "removed"

C5_Witness ==
    /\ pc = "raised"
    /\ raised.stage = "aggregate"
    /\ temp_dir = "removed"

\* the acceptance conditions as the specification words them
NameEndsInPyOrTs(name) ==
    /\ Len(name) >= 3
    /\ << name[Len(name) - 2], name[Len(name) - 1], name[Len(name)] >>
         \in { <<".", "p", "y">>, <<".", "t", "s">> }
DecodesAsUtf8(content) == \A i \in 1..Len(content) : content[i] \in { "sp", "a" }
TrimmedNonEmpty(content) == \E i \in 1..Len(content) : content[i] # "sp"

ShouldAccept(f) ==
    /\ NameEndsInPyOrTs(f.name)
    /\ f.size <= 1000000
    /\ DecodesAsUtf8(f.content)
    /\ TrimmedNonEmpty(f.content)

\* the errors that answer the conditions a file fails
FailureKinds(f) ==
    (IF NameEndsInPyOrTs(f.name) THEN {} ELSE { "WrongExtension" })
    \cup (IF f.size <= 1000000 THEN {} ELSE { "TooLarge" })
    \cup (IF DecodesAsUtf8(f.content) THEN {} ELSE { "DecodeFailure" })
    \cup (IF DecodesAsUtf8(f.content) /\ ~TrimmedNonEmpty(f.content)
          THEN { "Empty" } ELSE {})

\* C6: a file that can be read is accepted exactly when its name ends in .py or
\* .ts, its size is at most 1,000,000 bytes, it decodes as UTF-8 and its trimmed
\* content is not empty; a file failing one of these is left out of the mapping
\* of a walk, which goes on, and makes read_code_files with specific_file and
\* read_local_file raise the error of a condition it fails.
C6_Eligibility ==
    (probe.by # "none" /\ probe.file.exists /\ probe.file.readable) =>
        /\ (probe.verdict = "accept") <=> ShouldAccept(probe.file)
        /\ probe.by = "walk" =>
             /\ pc # "raised"
             /\ ShouldAccept(probe.file) <=>
                  (code_files # <<>> /\ code_files[Len(code_files)] = walked)
        /\ (probe.by \in { "specific", "local" } /\ ShouldAccept(probe.file)) =>
             (code_files = <<1>> /\ raised.stage # "acquire")
        /\ (probe.by \in { "specific", "local" } /\ ~ShouldAccept(probe.file)) =>
             /\ pc = "raised"
             /\ raised.stage = "acquire"
             /\ raised.kind \in FailureKinds(probe.file)
             /\ code_files = <<>>

C6_Witness ==
    /\ probe.by = "walk"
    /\ probe.file.size = 1000000
    /\ probe.verdict = "accept"
    /\ code_files # <<>>

AcquisitionFailed ==
    \/ raised.stage = "acquire"
    \/ probe.by \in { "specific", "local" } /\ probe.verdict # "accept"
    \/ probe.by = "walk" /\ probe.verdict = "OSError"

\* C7: single-file mode with a nonexistent path raises NotFound, and no call to
\* the boundary is made in that run; every other failure of the acquisition
\* stage likewise ends the run with zero boundary calls.
C7_NoCallAfterAcquisitionFailure ==
    /\ (probe.by \in { "specific", "local" } /\ ~probe.file.exists) =>
         /\ pc = "raised"
         /\ raised = [ stage |-> "acquire", kind |-> "NotFound" ]
    /\ AcquisitionFailed =>
         /\ pc = "raised"
         /\ raised.stage = "acquire"
         /\ total_calls = 0
         /\ log = <<>>

C7_Witness ==
    /\ probe.by = "local"
    /\ ~probe.file.exists
    /\ pc = "raised"
    /\ raised.kind = "NotFound"
    /\ total_calls = 0

\* C8: in walk mode no failure on a single file aborts the walk: a candidate
\* that is too large, empty, undecodable or unreadable is skipped and the walk
\* goes on without raising.
C8_WalkNeverAborts ==
    probe.by = "walk" => (pc # "raised" /\ raised = NoRaise)

\* C9: for every sequence of per-attempt outcomes analyze_code_with_groq
\* returns a result, never raises past its own boundary, and has made at least
\* 1 and at most 3 boundary calls.  It terminates: until it has returned a
\* step is always possible, every step adds one event to the log, and the log
\* never holds more than 3 calls, 3 outcomes and 2 delays.
C9_Bounded ==
    /\ ~(pc = "raised" /\ raised.stage = "request")
    /\ pc \in { "attempt", "in_flight", "sleeping", "got_analysis" }
    /\ pc # "got_analysis" => ENABLED NextRequester
    /\ Count(log, "call") <= 3
    /\ Len(log) <= 8
    /\ pc = "got_analysis" =>
         /\ Count(log, "call") \in 1..3
         /\ analysis # NoAnalysis
         /\ analysis.kind \in { "dict", "int" }

C9_ReturnsWithinThreeCalls ==
    /\ []C9_Bounded
    /\ [][Len(log') = Len(log) + 1]_vars

C9_Witness ==
    /\ pc = "got_analysis"
    /\ log = <<"call", "none", "sleep", "call", "raise", "sleep", "call", "text">>
    /\ ~analysis.hasE

\* the span the specification describes: first "{" through last "}"
Opens(text) == { i \in 1..Len(text) : text[i] = "{" }
Closes(text) == { j \in 1..Len(text) : text[j] = "}" }
HasSpan(text) ==
    /\ Opens(text) # {}
    /\ Closes(text) # {}
    /\ Max(Closes(text)) > Min(Opens(text))
FirstToLast(text) == SubSeq(text, Min(Opens(text)), Max(Closes(text)))
WhitespaceOnly(text) == \A i \in 1..Len(text) : text[i] = "sp"

TextReturned == variant = "utils" /\ pc = "got_analysis" /\ log[Len(log)] = "text"

\* C10 as stated: the extracted span is first "{" through last "}" when the
\* last "}" lies after the first "{"; otherwise the extraction is empty and
\* analyze_code_with_groq yields the NoJsonFound error naming the file.
C10_AsStated ==
    TextReturned =>
        IF HasSpan(raw_content)
        THEN /\ extract_json_from_response(raw_content) = FirstToLast(raw_content)
             /\ json_content = FirstToLast(raw_content)
        ELSE /\ extract_json_from_response(raw_content) = <<>>
             /\ analysis = ErrorResult("NoJsonFound", code_files[idx])

\* C10 (amended): as above, the NoJsonFound result being yielded when the text
\* has no span and is not blank; a blank text has no span either and yields
\* the EmptyResponse error naming the file.
C10_SpanOrNoJsonFound ==
    TextReturned =>
        IF HasSpan(raw_content)
        THEN /\ extract_json_from_response(raw_content) = FirstToLast(raw_content)
             /\ json_content = FirstToLast(raw_content)
        ELSE /\ extract_json_from_response(raw_content) = <<>>
             /\ IF WhitespaceOnly(raw_content)
                THEN analysis = ErrorResult("EmptyResponse", code_files[idx])
                ELSE /\ json_content = <<>>
                     /\ analysis = ErrorResult("NoJsonFound", code_files[idx])

C10_Witness ==
    /\ TextReturned
    /\ raw_content = <<"x", "{", "V0", "}", "x">>
    /\ json_content = <<"{", "V0", "}">>
    /\ analysis = Dict(TRUE, "list", <<>>, FALSE, NoError)

\* the last step of the current analyze_code_with_groq call took a returned text
LastEventIsText ==
    /\ pc \in { "got_analysis", "sleeping", "raised" }
    /\ log # <<>>
    /\ log[Len(log)] = "text"

\* C11: when a boundary call of utils.py's analyze_code_with_groq returns a
\* blank or whitespace-only text, the function returns the EmptyResponse error
\* result for the file without calling extract_json_from_response or json.loads.
C11_BlankShortCircuits ==
    (variant = "utils" /\ LastEventIsText /\ WhitespaceOnly(raw_content)) =>
        /\ pc = "got_analysis"
        /\ analysis = ErrorResult("EmptyResponse", code_files[idx])
        /\ invoked = <<>>

C11_Witness ==
    /\ variant = "utils"
    /\ LastEventIsText
    /\ raw_content = <<"sp", "sp">>
    /\ analysis.error.kind = "EmptyResponse"
    /\ invoked = <<>>

\* boundary calls of the current analyze_code_with_groq call that were issued
\* and have neither returned nor raised yet
Answered == Count(log, "raise") + Count(log, "none") + Count(log, "text")
InFlight == Count(log, "call") - Answered

\* every file before the current one has its result in the aggregate
EarlierFilesRecorded ==
    /\ Len(results) = idx - 1
    /\ \A k \in 1..(idx - 1) : results[k].file = code_files[k]
    /\ all_vulnerabilities = Concatenation(results)

C12_OneAtATime ==
    /\ InFlight \in { 0, 1 }
    /\ (InFlight = 1) <=> (pc = "in_flight")
    /\ pc \in { "attempt", "in_flight", "sleeping", "got_analysis" } =>
         (idx \in 1..Len(code_files) /\ EarlierFilesRecorded)

\* C12: files are processed strictly one at a time: at most one boundary call
\* is in flight at any moment, a call is issued only when none is in flight,
\* and no call for a file is issued, nor is the next file taken up, before
\* every earlier file's result has been appended to the aggregate, retries
\* and delays included.
C12_StrictlySequential ==
    /\ []C12_OneAtATime
    /\ [][ /\ total_calls' # total_calls =>
                /\ total_calls' = total_calls + 1
                /\ InFlight = 0
                /\ EarlierFilesRecorded
           /\ idx' # idx =>
                /\ idx' = idx + 1
                /\ InFlight = 0
                /\ Len(results) = idx
                /\ all_vulnerabilities = Concatenation(results) ]_vars

C12_Witness ==
    /\ idx = 2
    /\ pc = "in_flight"
    /\ attempt = 1
    /\ Len(results) = 1
    /\ results[1].analysis.error.kind = "TransientCallFailure"
    /\ Len(all_vulnerabilities) = 1

\* C13: in analyze_code_with_groq a further attempt is made only after an
\* attempt that raised: once a boundary call has returned a text of any kind
\* the function returns at once, with no delay and no further call, and at its
\* return the number of delays is the number of boundary calls minus one.
C13_TextIsNeverRetried ==
    /\ \A k \in 1..Len(log) :
         log[k] = "text" => (k = Len(log) /\ pc # "sleeping")
    /\ \A k \in 1..Len(log) :
         log[k] = "sleep" => (k > 1 /\ log[k - 1] \in { "raise", "none" })
    /\ pc = "got_analysis" => Count(log, "sleep") = Count(log, "call") - 1

====
